---- MODULE Spec2Model ----
(***************************************************************************)
(* Model of ELReasoner (src/El_reasoner.py): the completion graph, the     *)
(* completion rules and the sweep loop of compute_subsumers.               *)
(*                                                                         *)
(* Concept expressions are the strings the formatter hands to the code.    *)
(* A string is modelled as a sequence of tokens; a token is one character  *)
(* of the string, except that the three characters " ⊓ " (space, ⊓, space) *)
(* are the single token AND and the reserved word TOP is the single token  *)
(* TOP.  The rendering conventions are the ones the code itself uses when  *)
(* it builds a string: f"{l} ⊓ {r}" (line 89) and f"∃{role}.{concept}"     *)
(* (line 133); a named concept is rendered between double quotes (lines    *)
(* 166-169, 193).                                                          *)
(***************************************************************************)
EXTENDS Integers, Sequences, FiniteSets, TLC

\* ------------------------------------------------------------------------
\* Bounds of the model
\* ------------------------------------------------------------------------
MaxAxioms == 2

MaxCalls == 2

\* ------------------------------------------------------------------------
\* Strings
\* ------------------------------------------------------------------------
Quote == "\""

AND == "AND"

EX == "EX"

DOT == "."

TOP == <<"TOP">>

\* Code-point order of the first character of each token:
\* ' ' (of " ⊓ ") < '"' < '.' < 'A'..'E' < 'T' < 'r' < 's' < '∃'.
TokenRank(t) ==
    CASE t = AND -> 0
      [] t = Quote -> 1
      [] t = DOT -> 2
      [] t = "A" -> 3
      [] t = "B" -> 4
      [] t = "C" -> 5
      [] t = "D" -> 6
      [] t = "E" -> 7
      [] t = "TOP" -> 8
      [] t = "r" -> 9
      [] t = "s" -> 10
      [] t = EX -> 11

MinOf(S) == CHOOSE x \in S : \A y \in S : x <= y

\* Python's str.__lt__ : lexicographic, a proper prefix sorts first.
StrLess(a, b) ==
    LET n == IF Len(a) < Len(b) THEN Len(a) ELSE Len(b)
        diff == {i \in 1..n : a[i] # b[i]}
    IN  IF diff = {} THEN Len(a) < Len(b)
        ELSE TokenRank(a[MinOf(diff)]) < TokenRank(b[MinOf(diff)])

RECURSIVE SetToSeq(_)
SetToSeq(S) ==
    IF S = {} THEN <<>>
    ELSE LET x == CHOOSE y \in S : TRUE IN <<x>> \o SetToSeq(S \ {x})

\* sorted(list(S))
sorted(S) == SortSeq(SetToSeq(S), StrLess)

Reverse(s) == [i \in 1..Len(s) |-> s[Len(s) + 1 - i]]

Range(s) == {s[i] : i \in 1..Len(s)}

\* s.startswith('"'), s.endswith('"'), s.startswith("∃"), "⊓" in s
startswith(s, t) == Len(s) >= 1 /\ s[1] = t

endswith(s, t) == Len(s) >= 1 /\ s[Len(s)] = t

contains(s, t) == \E i \in 1..Len(s) : s[i] = t

\* s.find(t), 0-based, -1 when t does not occur
find(s, t) ==
    IF contains(s, t) THEN MinOf({i \in 1..Len(s) : s[i] = t}) - 1 ELSE -1

\* Python slice s[lo:hi] for 0 <= lo, with a negative hi counted from the end
slice(s, lo, hi) ==
    LET h == IF hi < 0 THEN Len(s) + hi ELSE hi
    IN  SubSeq(s, lo + 1, h)

\* s.split(" ⊓ ") as the set of its parts
RECURSIVE split(_)
split(s) ==
    IF ~contains(s, AND) THEN {s}
    ELSE LET k == find(s, AND)
         IN  {slice(s, 0, k)} \cup split(SubSeq(s, k + 2, Len(s)))

\* The renderings of the formatter
Named(n) == <<Quote, n, Quote>>

Conj(l, r) == l \o <<AND>> \o r

Exists(role, c) == <<EX>> \o role \o <<DOT>> \o c

\* ------------------------------------------------------------------------
\* The ontology handed over by the parser: concept objects.  A concept is
\* kept in prefix form, a sequence of tokens: <<n>> is the concept named n,
\* <<AND>> \o l \o r the (binary) conjunction of l and r, and
\* <<EX, role>> \o c the existential restriction of role over c.
\* ------------------------------------------------------------------------
ConceptName(n) == <<n>>

ConceptConjunction(l, r) == <<AND>> \o l \o r

ExistentialRoleRestriction(role, c) == <<EX, role>> \o c

\* Number of tokens of the concept that starts at position i of t
RECURSIVE ConceptLen(_, _)
ConceptLen(t, i) ==
    IF t[i] = AND
    THEN LET n1 == ConceptLen(t, i + 1) IN 1 + n1 + ConceptLen(t, i + 1 + n1)
    ELSE IF t[i] = EX THEN 2 + ConceptLen(t, i + 2)
    ELSE 1

ConceptAt(t, i) == SubSeq(t, i, i + ConceptLen(t, i) - 1)

Left(t) == ConceptAt(t, 2)

Right(t) == ConceptAt(t, 2 + ConceptLen(t, 2))

Role(t) == t[2]

Filler(t) == ConceptAt(t, 3)

\* formatter.format(concept), in the rendering the code relies on
RECURSIVE Format(_)
Format(t) ==
    IF t[1] = AND THEN Conj(Format(Left(t)), Format(Right(t)))
    ELSE IF t[1] = EX THEN Exists(<<Role(t)>>, Format(Filler(t)))
    ELSE Named(t[1])

A == ConceptName("A")

B == ConceptName("B")

C == ConceptName("C")

D == ConceptName("D")

E == ConceptName("E")

GCI(lhs, rhs) == [type |-> "GeneralConceptInclusion", concepts |-> <<lhs, rhs>>]

EQUIV(c1, c2) == [type |-> "EquivalenceAxiom", concepts |-> <<c1, c2>>]

\* The axioms an ontology file is made of, in the order of the TBox.
AxiomPool ==
    << GCI(A, B),
       GCI(A, ConceptConjunction(B, C)),
       GCI(ConceptConjunction(B, A), C),
       GCI(ConceptConjunction(A, B), D),
       GCI(A, ExistentialRoleRestriction("r", B)),
       GCI(A, ExistentialRoleRestriction("s", B)),
       EQUIV(B, ExistentialRoleRestriction("r", C)),
       GCI(C, ExistentialRoleRestriction("s", ConceptConjunction(D, E))) >>

\* An ontology file: at most MaxAxioms axioms of the pool, in pool order.
Ontologies ==
    {S \in SUBSET (1..Len(AxiomPool)) : Cardinality(S) <= MaxAxioms}

RECURSIVE TBox(_)
TBox(S) ==
    IF S = {} THEN <<>>
    ELSE <<AxiomPool[MinOf(S)]>> \o TBox(S \ {MinOf(S)})

\* The class names given on the command line (sys.argv[2])
ClassNames ==
    {<<"A">>, <<"B">>, <<"C">>, Named("A"), Named("B"), <<Quote, "A">>, <<"A", Quote>>}

\* The seed of the process fixes the order in which a set of strings is
\* iterated; two of the possible orders are modelled.
HashSeeds == {"ascending", "descending"}

\* list(S) for a set S of strings
list(S, seed) == IF seed = "ascending" THEN sorted(S) ELSE Reverse(sorted(S))

\* ------------------------------------------------------------------------
\* load_ontology
\* ------------------------------------------------------------------------
\* Lines 36-44: the pairs an equivalence axiom over the concepts cs appends,
\* from the pair of indices (i, j) on.
RECURSIVE EquivalencePairs(_, _, _)
EquivalencePairs(cs, i, j) ==
    IF i > Len(cs) THEN <<>>
    ELSE IF j > Len(cs) THEN EquivalencePairs(cs, i + 1, 1)
    ELSE IF i = j THEN EquivalencePairs(cs, i, j + 1)
    ELSE << <<Format(cs[i]), Format(cs[j])>>, <<Format(cs[j]), Format(cs[i])>> >>
         \o EquivalencePairs(cs, i, j + 1)

\* The pairs one axiom appends to gci_axioms.
AxiomPairs(axiom) ==
    IF axiom.type = "EquivalenceAxiom" THEN EquivalencePairs(axiom.concepts, 1, 1)
    ELSE IF axiom.type = "GeneralConceptInclusion"
    THEN << <<Format(axiom.concepts[1]), Format(axiom.concepts[2])>> >>
    ELSE <<>>

RECURSIVE load_ontology(_)
load_ontology(axioms) ==
    IF axioms = <<>> THEN <<>>
    ELSE AxiomPairs(Head(axioms)) \o load_ontology(Tail(axioms))

\* ------------------------------------------------------------------------
\* The completion graph: a record of the three dictionaries; keys is the
\* insertion order of the dictionary concepts (and of initial_concepts).
\* successors[e] is an insertion-ordered dictionary successor -> role,
\* a sequence of pairs <<successor, role>> with distinct first components.
\* ------------------------------------------------------------------------
EmptyGraph ==
    [concepts |-> <<>>, successors |-> <<>>, initial_concepts |-> <<>>, keys |-> <<>>]

d0 == <<0>>

initialize_element(g, element, concept) ==
    IF element \in DOMAIN g.concepts THEN g
    ELSE [concepts |-> (element :> {concept}) @@ g.concepts,
          initial_concepts |-> (element :> concept) @@ g.initial_concepts,
          successors |-> (element :> <<>>) @@ g.successors,
          keys |-> Append(g.keys, element)]

\* A dictionary that forgets its entries: it holds the last assignment only
DictSet_forgetting(d, key, value) == <<<<key, value>>>>

\* d[key] = value on an insertion-ordered dictionary
DictSet(d, key, value) ==
    IF \E i \in 1..Len(d) : d[i][1] = key
    THEN [i \in 1..Len(d) |-> IF d[i][1] = key THEN <<key, value>> ELSE d[i]]
    ELSE Append(d, <<key, value>>)

AddConcepts(g, element, cs) ==
    [g EXCEPT !.concepts[element] = @ \cup cs]

\* A top rule that assigns nothing
apply_top_rule_skipped(g, element) == [g |-> g, ret |-> FALSE]

\* Every rule returns the graph it leaves and its return value.
apply_top_rule(g, element) ==
    IF TOP \notin g.concepts[element]
    THEN [g |-> AddConcepts(g, element, {TOP}), ret |-> TRUE]
    ELSE [g |-> g, ret |-> FALSE]

input_concepts(gci) == {gci[i][1] : i \in 1..Len(gci)} \cup {gci[i][2] : i \in 1..Len(gci)}

apply_conjunction_rules(g, gci, element) ==
    LET concepts0 == g.concepts[element]
        parts == UNION {split(c) : c \in {x \in concepts0 : contains(x, AND)}}
        concepts1 == concepts0 \cup parts
        concept_list == sorted(concepts1 \cap input_concepts(gci))
        conjs == {Conj(concept_list[i], concept_list[j]) :
                     <<i, j>> \in {p \in (1..Len(concept_list)) \X (1..Len(concept_list)) :
                                      p[1] < p[2]}}
        added == conjs \cap input_concepts(gci)
        concepts2 == concepts1 \cup added
    IN  [g |-> [g EXCEPT !.concepts[element] = concepts2],
         ret |-> concepts2 # concepts0]

\* A generation step that never reuses an element: lines 113-121 left out
ExistentialGeneration_without_reuse(g, element, concept) ==
    IF ~startswith(concept, EX) THEN [g |-> g, ret |-> FALSE]
    ELSE
      LET role == slice(concept, 1, find(concept, DOT))
          filler == slice(concept, find(concept, DOT) + 1, Len(concept))
          succs == g.successors[element]
          has_successor ==
              \E i \in 1..Len(succs) :
                  /\ succs[i][2] = role
                  /\ g.initial_concepts[succs[i][1]] = filler
          new_succ == Append(element, Len(succs))
          g1 == initialize_element(g, new_succ, filler)
      IN
      IF has_successor THEN [g |-> g, ret |-> FALSE]
      ELSE [g |-> [g1 EXCEPT !.successors[element] = DictSet(@, new_succ, role)],
            ret |-> TRUE]

\* The body of the loop of line 101 for one concept of the label,
\* lines 102-128.
ExistentialGeneration(g, element, concept) ==
    IF ~startswith(concept, EX) THEN [g |-> g, ret |-> FALSE]
    ELSE
      LET role == slice(concept, 1, find(concept, DOT))
          filler == slice(concept, find(concept, DOT) + 1, Len(concept))
          succs == g.successors[element]
          has_successor ==
              \E i \in 1..Len(succs) :
                  /\ succs[i][2] = role
                  /\ succs[i][1] \in DOMAIN g.initial_concepts
                  /\ g.initial_concepts[succs[i][1]] = filler
          reusable == {i \in 1..Len(g.keys) : g.initial_concepts[g.keys[i]] = filler}
      IN
      IF has_successor THEN [g |-> g, ret |-> FALSE]
      ELSE IF reusable # {}
      THEN LET e == g.keys[MinOf(reusable)]
           IN  [g |-> [g EXCEPT !.successors[element] = DictSet(@, e, role)],
                ret |-> TRUE]
      ELSE LET new_succ == Append(element, Len(succs))
               g1 == initialize_element(g, new_succ, filler)
           IN  [g |-> [g1 EXCEPT !.successors[element] = DictSet(@, new_succ, role)],
                ret |-> TRUE]

\* The loop of lines 101-128: cs is what is left of
\* list(self.concepts[element]).
RECURSIVE ExistentialRule1(_, _, _, _)
ExistentialRule1(g, element, cs, ch) ==
    IF cs = <<>> THEN [g |-> g, ret |-> ch]
    ELSE LET r1 == ExistentialGeneration(g, element, Head(cs))
         IN  ExistentialRule1(r1.g, element, Tail(cs), ch \/ r1.ret)

\* The loop of lines 131-136: ss is what is left of
\* list(self.successors[element].items()).
RECURSIVE ExistentialRule2(_, _, _, _)
ExistentialRule2(g, element, ss, ch) ==
    IF ss = <<>> THEN [g |-> g, ret |-> ch]
    ELSE
      LET succ == Head(ss)[1]
          role == Head(ss)[2]
          existentials == {Exists(role, concept) : concept \in g.concepts[succ]}
          new == existentials \ g.concepts[element]
      IN  ExistentialRule2(AddConcepts(g, element, new), element, Tail(ss),
                           ch \/ new # {})

apply_existential_rules(g, seed, element) ==
    LET r1 == ExistentialRule1(g, element, list(g.concepts[element], seed), FALSE)
    IN  ExistentialRule2(r1.g, element, r1.g.successors[element], r1.ret)

\* The loop of lines 146-159: i is the index of the axiom in turn.
RECURSIVE SubsumptionLoop(_, _, _, _, _)
SubsumptionLoop(g, gci, element, i, ch) ==
    IF i > Len(gci) THEN [g |-> g, ret |-> ch]
    ELSE
      LET lhs == gci[i][1]
          rhs == gci[i][2]
          label == g.concepts[element]
      IN
      IF lhs \in label /\ rhs \notin label
      THEN LET others == IF <<rhs, lhs>> \in Range(gci)
                         THEN {gci[k][2] : k \in {j \in 1..Len(gci) : gci[j][1] = rhs}}
                         ELSE {}
           IN  SubsumptionLoop(AddConcepts(g, element, {rhs} \cup others), gci,
                               element, i + 1, TRUE)
      ELSE SubsumptionLoop(g, gci, element, i + 1, ch)

apply_subsumption_rule(g, gci, element) == SubsumptionLoop(g, gci, element, 1, FALSE)

\* Lines 166-169
QuoteName(class_name) ==
    LET c1 == IF ~startswith(class_name, Quote)
              THEN <<Quote>> \o class_name \o <<Quote>> ELSE class_name
    IN  IF ~endswith(c1, Quote) THEN Append(c1, Quote) ELSE c1

\* Lines 192-193
NamedOrTop(label) ==
    {c \in label : (startswith(c, Quote) /\ endswith(c, Quote)) \/ c = TOP}

\* ------------------------------------------------------------------------
\* The reasoner as a state machine
\* ------------------------------------------------------------------------
VARIABLES
    hashseed,          \* the seed of the process (order of set iteration)
    ontology,          \* self.ontology: the axioms of the parsed TBox
    gci_axioms,        \* self.gci_axioms, a list of pairs
    concepts,          \* self.concepts
    successors,        \* self.successors
    initial_concepts,  \* self.initial_concepts
    keys,              \* insertion order of self.concepts / self.initial_concepts
    pc,                \* where the program is
    calls,             \* number of calls of compute_subsumers so far
    class_name,        \* compute_subsumers: class_name after lines 166-169
    changed,           \* compute_subsumers: changed
    max_iterations,    \* compute_subsumers: max_iterations
    iteration_count,   \* compute_subsumers: iteration_count
    elements,          \* what is left of list(self.concepts.keys()) in the sweep
    label_list,        \* apply_existential_rules: what is left of the list of line 101
    rule_changed,      \* apply_existential_rules: changed
    outcome,           \* how the last call ended: "none", "returned" or "raised"
    result,            \* the set the last call returned
    twin               \* a second process on the same TBox: its order of set
                       \* iteration, its gci_axioms, its graph and its result

vars == <<hashseed, ontology, gci_axioms, concepts, successors, initial_concepts, keys, pc,
          calls, class_name, changed, max_iterations, iteration_count, elements,
          label_list, rule_changed, outcome, result, twin>>

locals == <<class_name, max_iterations, iteration_count>>

rule_locals == <<label_list, rule_changed>>

Graph ==
    [concepts |-> concepts, successors |-> successors,
     initial_concepts |-> initial_concepts, keys |-> keys]

SetGraph(g) ==
    /\ concepts' = g.concepts
    /\ successors' = g.successors
    /\ initial_concepts' = g.initial_concepts
    /\ keys' = g.keys

CapFactor == 10

\* ELReasoner()
Init ==
    /\ hashseed \in HashSeeds
    /\ ontology = <<>>
    /\ gci_axioms = <<>>
    /\ concepts = <<>>
    /\ successors = <<>>
    /\ initial_concepts = <<>>
    /\ keys = <<>>
    /\ pc = "constructed"
    /\ calls = 0
    /\ class_name = <<>>
    /\ changed = FALSE
    /\ max_iterations = 0
    /\ iteration_count = 0
    /\ elements = <<>>
    /\ label_list = <<>>
    /\ rule_changed = FALSE
    /\ outcome = "none"
    /\ result = {}
    /\ twin = <<>>

\* reasoner.load_ontology(ontology_file)
LoadOntology ==
    /\ pc = "constructed"
    /\ \E S \in Ontologies :
          /\ ontology' = TBox(S)
          /\ gci_axioms' = load_ontology(TBox(S))
    /\ pc' = "loaded"
    /\ UNCHANGED <<hashseed, concepts, successors, initial_concepts, keys, calls,
                   class_name, changed, max_iterations, iteration_count, elements,
                   outcome, result>>
    /\ UNCHANGED rule_locals
    /\ UNCHANGED twin

\* reasoner.compute_subsumers(name), lines 163-178
ComputeSubsumers ==
    /\ pc \in {"loaded", "returned"}
    /\ calls < MaxCalls
    /\ \E name \in ClassNames :
          /\ class_name' = QuoteName(name)
          /\ SetGraph(initialize_element(Graph, d0, QuoteName(name)))
    /\ changed' = TRUE
    /\ max_iterations' = Len(gci_axioms) * CapFactor
    /\ iteration_count' = 0
    /\ calls' = calls + 1
    /\ outcome' = "none"
    /\ pc' = "while"
    /\ UNCHANGED <<hashseed, ontology, gci_axioms, elements, result>>
    /\ UNCHANGED rule_locals
    /\ UNCHANGED twin

\* line 180, condition true; lines 181-185
SweepBegin ==
    /\ pc = "while"
    /\ changed /\ iteration_count < max_iterations
    /\ changed' = FALSE
    /\ iteration_count' = iteration_count + 1
    /\ elements' = keys
    /\ pc' = "top"
    /\ UNCHANGED <<hashseed, ontology, gci_axioms, concepts, successors, initial_concepts,
                   keys, calls, class_name, max_iterations, outcome, result>>
    /\ UNCHANGED rule_locals
    /\ UNCHANGED twin

\* line 180, condition false
LoopExit ==
    /\ pc = "while"
    /\ ~(changed /\ iteration_count < max_iterations)
    /\ pc' = "return"
    /\ UNCHANGED <<hashseed, ontology, gci_axioms, concepts, successors, initial_concepts,
                   keys, calls, changed, elements, outcome, result>>
    /\ UNCHANGED locals
    /\ UNCHANGED rule_locals
    /\ UNCHANGED twin

\* A rule call of lines 186-189: changed |= rule(element)
RuleCall(at, applied, next) ==
    /\ pc = at
    /\ SetGraph(applied.g)
    /\ changed' = (changed \/ applied.ret)
    /\ pc' = next
    /\ UNCHANGED <<hashseed, ontology, gci_axioms, calls, elements, outcome, result>>
    /\ UNCHANGED locals
    /\ UNCHANGED rule_locals
    /\ UNCHANGED twin

ApplyTopRule ==
    RuleCall("top", apply_top_rule(Graph, Head(elements)), "conjunction")

ApplyConjunctionRules ==
    RuleCall("conjunction",
             apply_conjunction_rules(Graph, gci_axioms, Head(elements)),
             "existential")

\* apply_existential_rules is entered: lines 98 and 101, the label is listed
ExistentialRulesEnter ==
    /\ pc = "existential"
    /\ label_list' = list(concepts[Head(elements)], hashseed)
    /\ rule_changed' = FALSE
    /\ pc' = "generation"
    /\ UNCHANGED <<hashseed, ontology, gci_axioms, concepts, successors,
                   initial_concepts, keys, calls, changed, elements, outcome, result>>
    /\ UNCHANGED locals
    /\ UNCHANGED twin

\* One turn of the loop of line 101, lines 102-128
ExistentialGenerationStep ==
    LET applied == ExistentialGeneration(Graph, Head(elements), Head(label_list)) IN
    /\ pc = "generation"
    /\ label_list # <<>>
    /\ SetGraph(applied.g)
    /\ rule_changed' = (rule_changed \/ applied.ret)
    /\ label_list' = Tail(label_list)
    /\ UNCHANGED <<hashseed, ontology, gci_axioms, pc, calls, changed, elements,
                   outcome, result>>
    /\ UNCHANGED locals
    /\ UNCHANGED twin

\* The loop of line 101 is over: lines 131-138, and changed |= of line 188
ExistentialPropagation ==
    LET applied == ExistentialRule2(Graph, Head(elements),
                                    successors[Head(elements)], rule_changed) IN
    /\ pc = "generation"
    /\ label_list = <<>>
    /\ SetGraph(applied.g)
    /\ changed' = (changed \/ applied.ret)
    /\ pc' = "subsumption"
    /\ UNCHANGED <<hashseed, ontology, gci_axioms, calls, elements, outcome, result>>
    /\ UNCHANGED locals
    /\ UNCHANGED rule_locals
    /\ UNCHANGED twin

\* line 189 and the step of the for loop of line 185
ApplySubsumptionRule ==
    LET applied == apply_subsumption_rule(Graph, gci_axioms, Head(elements)) IN
    /\ pc = "subsumption"
    /\ SetGraph(applied.g)
    /\ changed' = (changed \/ applied.ret)
    /\ elements' = Tail(elements)
    /\ pc' = IF Tail(elements) = <<>> THEN "while" ELSE "top"
    /\ UNCHANGED <<hashseed, ontology, gci_axioms, calls, outcome, result>>
    /\ UNCHANGED locals
    /\ UNCHANGED rule_locals
    /\ UNCHANGED twin

\* lines 192-193
Return ==
    /\ pc = "return"
    /\ result' = NamedOrTop(concepts[d0])
    /\ outcome' = "returned"
    /\ pc' = "returned"
    /\ UNCHANGED <<hashseed, ontology, gci_axioms, concepts, successors, initial_concepts,
                   keys, calls, changed, elements>>
    /\ UNCHANGED locals
    /\ UNCHANGED rule_locals
    /\ UNCHANGED twin

Next ==
    \/ LoadOntology
    \/ ComputeSubsumers
    \/ SweepBegin
    \/ LoopExit
    \/ ApplyTopRule
    \/ ApplyConjunctionRules
    \/ ExistentialRulesEnter
    \/ ExistentialGenerationStep
    \/ ExistentialPropagation
    \/ ApplySubsumptionRule
    \/ Return

Spec == Init /\ [][Next]_vars

TypeOK ==
    /\ pc \in {"constructed", "loaded", "while", "top", "conjunction",
               "existential", "generation", "subsumption", "return",
               "returned"}
    /\ DOMAIN concepts = Range(keys)
    /\ DOMAIN successors = Range(keys)
    /\ DOMAIN initial_concepts = Range(keys)

\* ------------------------------------------------------------------------
\* compute_subsumers as a function of the graph it starts from
\* ------------------------------------------------------------------------
\* Lines 186-189 for one element
RulesOn(g, gci, seed, element) ==
    LET r1 == apply_top_rule(g, element)
        r2 == apply_conjunction_rules(r1.g, gci, element)
        r3 == apply_existential_rules(r2.g, seed, element)
        r4 == apply_subsumption_rule(r3.g, gci, element)
    IN  [g |-> r4.g, ret |-> r1.ret \/ r2.ret \/ r3.ret \/ r4.ret]

\* Lines 185-189: es is what is left of list(self.concepts.keys())
RECURSIVE Sweep(_, _, _, _, _)
Sweep(g, gci, seed, es, ch) ==
    IF es = <<>> THEN [g |-> g, ret |-> ch]
    ELSE LET r1 == RulesOn(g, gci, seed, Head(es))
         IN  Sweep(r1.g, gci, seed, Tail(es), ch \/ r1.ret)

\* Lines 180-189
RECURSIVE SweepLoop(_, _, _, _, _)
SweepLoop(g, gci, seed, ch, count) ==
    IF ch /\ count < Len(gci) * CapFactor
    THEN LET r1 == Sweep(g, gci, seed, g.keys, FALSE)
         IN  SweepLoop(r1.g, gci, seed, r1.ret, count + 1)
    ELSE [g |-> g, ret |-> ch]

\* The set compute_subsumers(name) returns on a reasoner whose graph is g
compute_subsumers(g, gci, seed, name) ==
    LET g0 == initialize_element(g, d0, QuoteName(name))
    IN  NamedOrTop(SweepLoop(g0, gci, seed, TRUE, 0).g.concepts[d0])

\* ------------------------------------------------------------------------
\* Properties
\* ------------------------------------------------------------------------
\* The (role, target) edges of an element
Edges(element) ==
    {<<successors[element][i][2], successors[element][i][1]>> :
        i \in 1..Len(successors[element])}

\* The loop of line 180 was left with changed still true: the cap
\* iteration_count < max_iterations ended it.
CapTripped == changed /\ iteration_count >= max_iterations

\* A string that renders a named concept: quoted, neither a conjunction nor
\* an existential restriction.
IsNamedConcept(c) ==
    /\ startswith(c, Quote) /\ endswith(c, Quote)
    /\ ~contains(c, AND) /\ ~contains(c, EX)

\* C2: the sweep loop is left because a complete sweep changed nothing
\* (changed is false), never because iteration_count reached max_iterations.
C2_LoopEndsAtFixpoint == pc = "return" => ~changed

\* C3: when the loop stops at the cap after a sweep that still changed the
\* graph, the call ends in an error and never returns a subsumer set.
C3_CapIsAnError ==
    (pc = "returned" /\ CapTripped /\ iteration_count > 0) => outcome = "raised"

\* C4: in every step, every element keeps its label and its (role, target)
\* edges: both only grow.
C4_LabelsAndEdgesGrow ==
    [][\A e \in DOMAIN concepts :
          /\ e \in DOMAIN concepts'
          /\ concepts[e] \subseteq concepts'[e]
          /\ Edges(e) \subseteq Edges(e)']_vars

\* C5: a call returns what the same call returns on a fresh reasoner with the
\* same ontology, and it starts from a graph that holds the root alone, whose
\* generating concept is the concept asked for.
C5_NoCrossQueryPersistence ==
    /\ pc = "returned" =>
          result = compute_subsumers(EmptyGraph, gci_axioms, hashseed, class_name)
    /\ (pc = "while" /\ iteration_count = 0) =>
          keys = <<d0>> /\ initial_concepts[d0] = class_name

\* C6: every member of the returned set is TOP or a named concept; for the
\* ontology {A [= B & C} the query A returns exactly {A, B, C, TOP}.
C6_OnlyNamedOrTop ==
    pc = "returned" =>
        /\ \A c \in result : c = TOP \/ IsNamedConcept(c)
        /\ (ontology = <<GCI(A, ConceptConjunction(B, C))>> /\ calls = 1
              /\ class_name = Named("A"))
           => result = {Named("A"), Named("B"), Named("C"), TOP}

\* C7: for a non-empty ontology the returned set contains TOP.
C7_TopIncluded == (pc = "returned" /\ gci_axioms # <<>>) => TOP \in result

\* A call on a reasoner with a loaded, non-empty ontology has returned TOP.
C7_Witness ==
    pc = "returned" /\ outcome = "returned" /\ gci_axioms # <<>> /\ TOP \in result

\* C8: the returned set contains the concept asked for, and the label of the
\* root always contains the root's generating concept.
C8_Reflexive ==
    /\ pc = "returned" => class_name \in result
    /\ d0 \in DOMAIN concepts => initial_concepts[d0] \in concepts[d0]

\* The concepts that occur in t, t included
SubConcepts(t) ==
    {ConceptAt(t, i) : i \in {k \in 1..Len(t) : k = 1 \/ t[k - 1] # EX}}

\* The concepts that occur in the loaded ontology, at the top of an axiom or
\* nested in another concept
OntologyConcepts ==
    UNION {SubConcepts(ontology[i].concepts[j]) :
              <<i, j>> \in {p \in (1..Len(ontology)) \X (1..2) :
                               p[2] <= Len(ontology[p[1]].concepts)}}

OntologyConjunctions == {t \in OntologyConcepts : t[1] = AND}

\* C9: when the call has returned, for every element and every conjunction
\* l & r that occurs in the ontology, the label holds l & r exactly when it
\* holds both l and r.
C9_ConjunctionClosed ==
    pc = "returned" =>
        \A e \in DOMAIN concepts : \A t \in OntologyConjunctions :
            (Format(Left(t)) \in concepts[e] /\ Format(Right(t)) \in concepts[e])
                <=> Format(t) \in concepts[e]

\* C10: a query concept that occurs in no axiom of the ontology (an ontology
\* without axioms included) has exactly itself and TOP as subsumers.
C10_AbsentConcept ==
    (pc = "returned" /\ \A t \in OntologyConcepts : Format(t) # class_name)
        => result = {class_name, TOP}

\* ------------------------------------------------------------------------
\* The reference saturation: the six rules on concepts (not on their
\* renderings), with a conjunction taken as the unordered pair of its
\* operands.  An element is identified with its generating concept.
\* ------------------------------------------------------------------------
RefMaxRounds == 12

TopConcept == <<"TOP">>

\* A conjunction is written with its operands in a fixed order.
RECURSIVE Canonical(_)
Canonical(t) ==
    IF t[1] = AND
    THEN LET l == Canonical(Left(t))
             rr == Canonical(Right(t))
         IN  IF StrLess(rr, l) THEN ConceptConjunction(rr, l)
             ELSE ConceptConjunction(l, rr)
    ELSE IF t[1] = EX THEN ExistentialRoleRestriction(Role(t), Canonical(Filler(t)))
    ELSE t

\* The axioms (lhs, rhs) of a TBox, an equivalence in both directions
RefAxioms(tbox) ==
    UNION {{<<Canonical(tbox[i].concepts[j]), Canonical(tbox[i].concepts[k])>> :
               <<j, k>> \in {p \in (1..Len(tbox[i].concepts)) \X (1..Len(tbox[i].concepts)) :
                                p[1] # p[2] /\ (tbox[i].type = "EquivalenceAxiom" \/ p[1] < p[2])}} :
           i \in 1..Len(tbox)}

\* The conjunctions that occur anywhere in a TBox
RefInteresting(tbox) ==
    {t \in UNION {SubConcepts(Canonical(tbox[i].concepts[j])) :
                     <<i, j>> \in {p \in (1..Len(tbox)) \X (1..2) :
                                      p[2] <= Len(tbox[p[1]].concepts)}} : t[1] = AND}

\* One round of the six rules on every element; lab maps each element to
\* its label.
RefRound(tbox, lab) ==
    LET elems == DOMAIN lab \cup
                 {Filler(x) : x \in {y \in UNION {lab[e] : e \in DOMAIN lab} : y[1] = EX}}
        old(e) == IF e \in DOMAIN lab THEN lab[e] ELSE {e}
        new(e) ==
            old(e)
            \cup {TopConcept}
            \cup UNION {{Left(x), Right(x)} : x \in {y \in old(e) : y[1] = AND}}
            \cup {t \in RefInteresting(tbox) : Left(t) \in old(e) /\ Right(t) \in old(e)}
            \cup UNION {{ExistentialRoleRestriction(Role(x), d) : d \in old(Filler(x))} :
                           x \in {y \in old(e) : y[1] = EX}}
            \cup {ax[2] : ax \in {a \in RefAxioms(tbox) : a[1] \in old(e)}}
    IN  [e \in elems |-> new(e)]

RECURSIVE RefSaturate(_, _, _)
RefSaturate(tbox, lab, n) ==
    LET next == RefRound(tbox, lab)
    IN  IF next = lab \/ n = 0 THEN lab ELSE RefSaturate(tbox, next, n - 1)

\* The reference saturation from a root labelled with the concept named n
\* has reached its fixpoint within RefMaxRounds rounds.
RefReachesFixpoint(tbox, n) ==
    LET lab == RefSaturate(tbox, (ConceptName(n) :> {ConceptName(n)}), RefMaxRounds)
    IN  RefRound(tbox, lab) = lab

\* The named concepts in the root label of the reference saturation, rendered
RefSubsumers(tbox, n) ==
    LET lab == RefSaturate(tbox, (ConceptName(n) :> {ConceptName(n)}), RefMaxRounds)
    IN  {Format(t) : t \in {x \in lab[ConceptName(n)] :
                               Len(x) = 1 /\ x # TopConcept}}

\* C1 (for an ontology that has axioms): on a fresh reasoner, the call for a
\* named concept returns the named concepts in the root label of the
\* reference saturation, and TOP: none is missing and none is added.
C1_ExactSubsumers ==
    (/\ pc = "returned" /\ calls = 1 /\ ontology # <<>>
     /\ Len(class_name) = 3
     /\ RefReachesFixpoint(ontology, class_name[2]))
        => result = RefSubsumers(ontology, class_name[2]) \cup {TOP}

\* C11: after the call has returned, one more application of the top,
\* conjunction, existential and subsumption rules to every element changes
\* no label and no successor, and every rule call returns False.
C11_SaturationIdempotent ==
    pc = "returned" =>
        LET again == Sweep(Graph, gci_axioms, hashseed, keys, FALSE)
        IN  again.g = Graph /\ ~again.ret

\* ------------------------------------------------------------------------
\* Two processes on the same TBox and class name, sweep by sweep
\* ------------------------------------------------------------------------
MaxOrderAxioms == 3

\* The depth of the chain of existential restrictions of the deep axiom
ChainDepth == 19

\* The restriction of the role r, k times, over the concept c
RECURSIVE RoleChain(_, _)
RoleChain(k, c) ==
    IF k = 0 THEN c ELSE ExistentialRoleRestriction("r", RoleChain(k - 1, c))

\* The axioms of the TBox files given to the two processes
OrderPool ==
    << GCI(A, ExistentialRoleRestriction("r", B)),
       GCI(A, ExistentialRoleRestriction("s", B)),
       GCI(A, ConceptConjunction(ExistentialRoleRestriction("r", B),
                                 ExistentialRoleRestriction("s", B))),
       GCI(B, C),
       GCI(ExistentialRoleRestriction("s", C), D),
       GCI(A, RoleChain(ChainDepth, B)) >>

OrderOntologies ==
    {S \in SUBSET (1..Len(OrderPool)) : Cardinality(S) <= MaxOrderAxioms}

RECURSIVE OrderTBox(_)
OrderTBox(S) ==
    IF S = {} THEN <<>>
    ELSE <<OrderPool[MinOf(S)]>> \o OrderTBox(S \ {MinOf(S)})

\* The orders in which the axioms of the TBox can reach gci_axioms
AxiomOrders(gci) == {gci, Reverse(gci)}

\* main(), lines 204-205, in both processes
TwinInit ==
    /\ hashseed \in HashSeeds
    /\ ontology \in {OrderTBox(S) : S \in OrderOntologies}
    /\ gci_axioms = load_ontology(ontology)
    /\ concepts = <<>>
    /\ successors = <<>>
    /\ initial_concepts = <<>>
    /\ keys = <<>>
    /\ pc = "loaded"
    /\ calls = 0
    /\ class_name = <<>>
    /\ changed = FALSE
    /\ max_iterations = 0
    /\ iteration_count = 0
    /\ elements = <<>>
    /\ label_list = <<>>
    /\ rule_changed = FALSE
    /\ outcome = "none"
    /\ result = {}
    /\ \E seed \in HashSeeds : \E gci \in AxiomOrders(gci_axioms) :
          twin = [hashseed |-> seed, gci_axioms |-> gci, graph |-> EmptyGraph,
                  pc |-> "loaded", changed |-> FALSE, iteration_count |-> 0,
                  elements |-> <<>>, result |-> {}]

\* The first process is kept in the variables of the reasoner, the second
\* one in twin, which runs once the first one has returned.
Processes == {1, 2}

Process(i) ==
    IF i = 1
    THEN [hashseed |-> hashseed, gci_axioms |-> gci_axioms, graph |-> Graph,
          pc |-> pc, changed |-> changed, iteration_count |-> iteration_count,
          elements |-> elements, result |-> result]
    ELSE twin

SetProcess(i, p) ==
    IF i = 1
    THEN /\ SetGraph(p.graph)
         /\ pc' = p.pc
         /\ changed' = p.changed
         /\ iteration_count' = p.iteration_count
         /\ elements' = p.elements
         /\ result' = p.result
         /\ UNCHANGED twin
    ELSE /\ twin' = p
         /\ UNCHANGED <<concepts, successors, initial_concepts, keys, pc, changed,
                        iteration_count, elements, result>>

Scheduled(i) == i = 1 \/ pc = "returned"

\* compute_subsumers(class_name), lines 163-178, in both processes
TwinCall ==
    /\ pc = "loaded"
    /\ \E name \in ClassNames :
          /\ class_name' = QuoteName(name)
          /\ SetGraph(initialize_element(Graph, d0, QuoteName(name)))
          /\ twin' = [twin EXCEPT
                         !.graph = initialize_element(@, d0, QuoteName(name)),
                         !.changed = TRUE, !.pc = "while"]
    /\ changed' = TRUE
    /\ max_iterations' = Len(gci_axioms) * CapFactor
    /\ iteration_count' = 0
    /\ calls' = calls + 1
    /\ pc' = "while"
    /\ UNCHANGED <<hashseed, ontology, gci_axioms, elements, outcome, result>>
    /\ UNCHANGED rule_locals

\* line 180
Loops(p) == p.changed /\ p.iteration_count < Len(p.gci_axioms) * CapFactor

\* line 180, condition true; lines 181-185
TwinSweepBegin ==
    \E i \in Processes :
        /\ Scheduled(i)
        /\ Process(i).pc = "while"
        /\ Loops(Process(i))
        /\ SetProcess(i, [Process(i) EXCEPT
                             !.changed = FALSE,
                             !.iteration_count = @ + 1,
                             !.elements = Process(i).graph.keys,
                             !.pc = "top"])
        /\ UNCHANGED <<hashseed, ontology, gci_axioms, calls, class_name,
                       max_iterations, outcome>>
        /\ UNCHANGED rule_locals

\* lines 185-189 for the next element of the sweep
TwinRules ==
    \E i \in Processes :
        /\ Scheduled(i)
        /\ Process(i).pc = "top"
        /\ \E p \in {Process(i)} :
           \E r1 \in {apply_top_rule(p.graph, Head(p.elements))} :
           \E r2 \in {apply_conjunction_rules(r1.g, p.gci_axioms, Head(p.elements))} :
           \E r3 \in {apply_existential_rules(r2.g, p.hashseed, Head(p.elements))} :
           \E r4 \in {apply_subsumption_rule(r3.g, p.gci_axioms, Head(p.elements))} :
               SetProcess(i, [p EXCEPT
                                 !.graph = r4.g,
                                 !.changed = @ \/ r1.ret \/ r2.ret \/ r3.ret \/ r4.ret,
                                 !.elements = Tail(@),
                                 !.pc = IF Tail(p.elements) = <<>> THEN "while"
                                        ELSE "top"])
        /\ UNCHANGED <<hashseed, ontology, gci_axioms, calls, class_name,
                       max_iterations, outcome>>
        /\ UNCHANGED rule_locals

\* line 180, condition false; lines 192-193
TwinReturn ==
    \E i \in Processes :
        /\ Scheduled(i)
        /\ Process(i).pc = "while"
        /\ ~Loops(Process(i))
        /\ SetProcess(i, [Process(i) EXCEPT
                             !.result = NamedOrTop(Process(i).graph.concepts[d0]),
                             !.pc = "returned"])
        /\ UNCHANGED <<hashseed, ontology, gci_axioms, calls, class_name,
                       max_iterations, outcome>>
        /\ UNCHANGED rule_locals

TwinNext ==
    \/ TwinCall
    \/ TwinSweepBegin
    \/ TwinRules
    \/ TwinReturn

TwinSpec == TwinInit /\ [][TwinNext]_vars

\* C12: the returned subsumer set is the same for every order in which the
\* expressions of a label are visited and every order of the axioms.
C12_OrderIndependent ==
    (pc = "returned" /\ twin.pc = "returned") => result = twin.result

\* The role and the filler apply_existential_rules reads off an
\* expression, lines 103-104
RoleOf(concept) == slice(concept, 1, find(concept, DOT))

FillerOf(concept) == slice(concept, find(concept, DOT) + 1, Len(concept))

\* The check of lines 108-111 on graph g
HasSuccessor(g, element, role, filler) ==
    \E i \in 1..Len(g.successors[element]) :
        /\ g.successors[element][i][2] = role
        /\ g.initial_concepts[g.successors[element][i][1]] = filler

\* C13: when apply_existential_rules(element) returns, the element has, for
\* every existential of its label at the start of the call, a successor by
\* the role of the existential whose generating concept is its filler.
C13_GenerationPostcondition ==
    pc = "existential" =>
        LET element == Head(elements)
            after == apply_existential_rules(Graph, hashseed, element).g
        IN  \A concept \in concepts[element] :
                startswith(concept, EX) =>
                    HasSuccessor(after, element, RoleOf(concept), FillerOf(concept))

\* The renderings of the concepts of the loaded ontology and its role names
OntologyStrings == {Format(t) : t \in OntologyConcepts}

OntologyRoles == {<<Role(t)>> : t \in {u \in OntologyConcepts : u[1] = EX}}

\* The concept the root element was created for (line 173)
QueryConcept == initial_concepts[d0]

\* C14: in every reachable state every expression of every label is TOP,
\* the query concept, a sub-expression of the ontology, or an existential
\* whose role occurs in the ontology and whose filler is a sub-expression of
\* the ontology, the query concept or TOP, never a derived existential.
C14_LabelsWithinClosure ==
    \A element \in DOMAIN concepts : \A concept \in concepts[element] :
        \/ concept \in {TOP, QueryConcept} \cup OntologyStrings
        \/ /\ startswith(concept, EX)
           /\ RoleOf(concept) \in OntologyRoles
           /\ FillerOf(concept) \in {TOP, QueryConcept} \cup OntologyStrings

\* C15: every element of the graph has been swept through the rules when
\* compute_subsumers returns; in particular its label contains TOP, which
\* the first rule of a sweep assigns.
C15_EveryElementSwept ==
    pc = "returned" => \A element \in DOMAIN concepts : TOP \in concepts[element]

\* C16: when compute_subsumers returns, every label is closed under the
\* axioms: for every pair (lhs, rhs) of gci_axioms and every element, lhs in
\* the label implies rhs in the label (both directions of an equivalence
\* are pairs of gci_axioms).
C16_ClosedUnderAxioms ==
    pc = "returned" =>
        \A element \in DOMAIN concepts : \A i \in 1..Len(gci_axioms) :
            gci_axioms[i][1] \in concepts[element]
                => gci_axioms[i][2] \in concepts[element]

\* What a rule call returned agrees with what it did to graph g
ReportsChange(g, r) == r.ret <=> r.g # g

\* C17: each of the four rule calls returns True exactly when the graph
\* (labels, successor edges, elements) after the call differs from the
\* graph before the call.
C17_ChangeReportedExactly ==
    /\ pc = "top" =>
           ReportsChange(Graph, apply_top_rule(Graph, Head(elements)))
    /\ pc = "conjunction" =>
           ReportsChange(Graph, apply_conjunction_rules(Graph, gci_axioms, Head(elements)))
    /\ pc = "existential" =>
           ReportsChange(Graph, apply_existential_rules(Graph, hashseed, Head(elements)))
    /\ pc = "subsumption" =>
           ReportsChange(Graph, apply_subsumption_rule(Graph, gci_axioms, Head(elements)))

\* C18: in every reachable state no two distinct elements have the same
\* generating concept: initial_concepts is injective.
C18_GeneratingConceptsDistinct ==
    \A e1 \in DOMAIN initial_concepts : \A e2 \in DOMAIN initial_concepts :
        initial_concepts[e1] = initial_concepts[e2] => e1 = e2

\* Two elements hold an edge to one and the same third element: the second
\* edge reused the element the first one created.
C18_Witness ==
    \E e1 \in DOMAIN successors : \E e2 \in DOMAIN successors :
        /\ e1 # e2
        /\ \E i \in 1..Len(successors[e1]) : \E j \in 1..Len(successors[e2]) :
               /\ successors[e1][i][1] = successors[e2][j][1]
               /\ successors[e1][i][1] \notin {e1, e2}

\* The turn of the loop of line 101 that is about to run reaches the create
\* branch of lines 124-128: an existential without a suitable successor and
\* without an element to reuse.
CreateBranch ==
    /\ pc = "generation"
    /\ label_list # <<>>
    /\ startswith(Head(label_list), EX)
    /\ ~HasSuccessor(Graph, Head(elements), RoleOf(Head(label_list)),
                     FillerOf(Head(label_list)))
    /\ \A e \in DOMAIN initial_concepts :
           initial_concepts[e] # FillerOf(Head(label_list))

\* C19: the create branch always makes a new element: the id it builds is
\* not the id of an element of the graph, and after the turn the graph has
\* one more element, the successor by the role, whose label is exactly the
\* filler and whose generating concept is the filler.
C19_CreateBranchMakesNewElement ==
    CreateBranch =>
        LET element == Head(elements)
            filler == FillerOf(Head(label_list))
            after == ExistentialGeneration(Graph, element, Head(label_list)).g
            new_succ == after.keys[Len(after.keys)]
        IN  /\ Len(after.keys) = Len(keys) + 1
            /\ new_succ \notin DOMAIN concepts
            /\ after.concepts[new_succ] = {filler}
            /\ after.initial_concepts[new_succ] = filler
            /\ \E i \in 1..Len(after.successors[element]) :
                   after.successors[element][i]
                       = <<new_succ, RoleOf(Head(label_list))>>

\* The create branch is reached on an element that has two successors already
C19_Witness == CreateBranch /\ Len(successors[Head(elements)]) >= 2

====
